---- MODULE Spec2Model ----
(***************************************************************************)
(* Model of the background process supervisor of tunnel-manager.py:        *)
(* TunnelManager.is_tunnel_running / start_tunnel / stop_tunnel /          *)
(* restart_tunnel, the PID files and log files under /tmp, and the part of *)
(* the operating system the supervisor observes (process table, zombies,   *)
(* PID reuse, ps and pgrep).                                               *)
(***************************************************************************)
EXTENDS Integers, Sequences, FiniteSets, TLC

(***************************************************************************)
(* Bounds                                                                  *)
(***************************************************************************)
\* process identifiers the OS hands out are 1..MaxPid
MaxPid == 2
\* lines a log file left in /tmp by an earlier session can hold
MaxLog == 1

\* range(10) of the poll loop in stop_tunnel
MaxPolls == 10

Pids == 1..MaxPid
\* supervisor processes alive at once: the interactive menu (command
\* 'interactive'), which stays after an operation, and one command-line
\* invocation, whose process ends when its operation returns
Menu == 1
Cli == 2
Inv == {Menu, Cli}

\* tunnel names are character sequences; "a" is a substring of "ab"
NameA == <<"a">>
NameAB == <<"a", "b">>
Names == {NameA, NameAB}

(***************************************************************************)
(* Text helpers: str(pid), int(f.read().strip()), substring search         *)
(***************************************************************************)
Digits == <<"0", "1", "2", "3", "4", "5", "6", "7", "8", "9">>

DigitVal(c) == (CHOOSE d \in 1..10 : Digits[d] = c) - 1

IsDigit(c) == \E d \in 1..10 : Digits[d] = c

IsSpace(c) == c \in {" ", "\n"}

RECURSIVE ToStr(_)
\* str(process.pid): decimal digits, most significant first
ToStr(n) == IF n < 10 THEN <<Digits[n + 1]>>
            ELSE ToStr(n \div 10) \o <<Digits[(n % 10) + 1]>>

RECURSIVE LStrip(_)
LStrip(s) == IF s # <<>> /\ IsSpace(Head(s)) THEN LStrip(Tail(s)) ELSE s

RECURSIVE RStrip(_)
RStrip(s) == IF s # <<>> /\ IsSpace(s[Len(s)]) THEN RStrip(SubSeq(s, 1, Len(s) - 1)) ELSE s

\* str.strip()
Strip(s) == RStrip(LStrip(s))

RECURSIVE DecVal(_)
DecVal(s) == IF s = <<>> THEN 0 ELSE 10 * DecVal(SubSeq(s, 1, Len(s) - 1)) + DigitVal(s[Len(s)])

RECURSIVE DigitPrefix(_)
DigitPrefix(s) == IF s # <<>> /\ IsDigit(Head(s)) THEN <<Head(s)>> \o DigitPrefix(Tail(s)) ELSE <<>>

\* the largest value of the C int that os.kill takes as pid, in digits
PidTMax == <<"2", "1", "4", "7", "4", "8", "3", "6", "4", "7">>

RECURSIVE StripZeros(_)
StripZeros(s) == IF Len(s) > 1 /\ Head(s) = "0" THEN StripZeros(Tail(s)) ELSE s

RECURSIVE DigitsGreater(_, _)
\* s > t for digit strings of the same length
DigitsGreater(s, t) ==
    IF s = <<>> THEN FALSE
    ELSE IF Head(s) # Head(t) THEN DigitVal(Head(s)) > DigitVal(Head(t))
    ELSE DigitsGreater(Tail(s), Tail(t))

\* the number written in digit string s does not fit the C int
TooWide(s) ==
    LET u == StripZeros(s) IN
    \/ Len(u) > Len(PidTMax)
    \/ Len(u) = Len(PidTMax) /\ DigitsGreater(u, PidTMax)

\* a parser that reads the leading digits and ignores what follows them, as
\* atoi does
ParseIntPrefix(s) ==
    LET t == DigitPrefix(Strip(s)) IN
    IF t = <<>> THEN [ok |-> FALSE, val |-> 0, wide |-> FALSE]
    ELSE IF TooWide(t) THEN [ok |-> TRUE, val |-> 0, wide |-> TRUE]
    ELSE [ok |-> TRUE, val |-> DecVal(t), wide |-> FALSE]

\* int(text.strip()): ok = FALSE stands for ValueError.  Over the characters
\* the model puts in a file (digits, blanks, a letter) Python accepts exactly
\* the non-empty all-digit strings.  A Python int has no width: wide marks a
\* value that os.kill cannot turn into a pid (OverflowError), and val is
\* then not used.
ParseInt(s) ==
    LET t == Strip(s) IN
    IF t # <<>> /\ \A k \in 1..Len(t) : IsDigit(t[k])
    THEN IF TooWide(t) THEN [ok |-> TRUE, val |-> 0, wide |-> TRUE]
                       ELSE [ok |-> TRUE, val |-> DecVal(t), wide |-> FALSE]
    ELSE [ok |-> FALSE, val |-> 0, wide |-> FALSE]

\* Python's "x in y" on strings / an unanchored regex search for a literal
IsSubstr(x, y) ==
    \E k \in 0..(Len(y) - Len(x)) : SubSeq(y, k + 1, k + Len(x)) = x

Min(S) == CHOOSE m \in S : \A o \in S : m <= o

(***************************************************************************)
(* Files                                                                   *)
(***************************************************************************)
NoFile == [ex |-> FALSE, data |-> <<>>]
File(d) == [ex |-> TRUE, data |-> d]

\* contents of a PID file that the supervisor did not write: empty, not a
\* number followed by garbage, a number wrapped in blanks
ForeignContents == {<<>>, <<"1", "x">>, <<" ", "1", "\n">>}

\* a number no process identifier can be: 2^31
WideContents == <<"2", "1", "4", "7", "4", "8", "3", "6", "4", "8">>

\* what a PID file of the model can hold: the above, or what line 171 writes
Contents == ForeignContents \cup {WideContents} \cup {ToStr(p) : p \in Pids}

\* int(f.read().strip()) for each of these contents, computed once
Parsed == [d \in Contents |-> ParseInt(d)] @@ <<>>

\* log[n] = -1: no log file; otherwise the number of lines in it
NoLog == -1

(***************************************************************************)
(* Processes                                                               *)
(***************************************************************************)
\* st: "free" (no such process), "alive", "zombie" (exited, not yet waited on)
\* parent: the supervisor process whose unreaped child it is, 0 for none
\* own: the user running the supervisor may signal it (it is that user's)
FreeProc == [st |-> "free", comm |-> "", tunnel |-> <<>>, parent |-> 0, own |-> TRUE]

Tool == "cloudflared"

\* the argv start_tunnel builds: cloudflared tunnel [--config f] run <name>
Cmdline(pr) ==
    IF pr.st # "alive" THEN <<>>
    ELSE IF pr.comm = Tool THEN <<Tool, "tunnel", "run">> \o <<pr.tunnel>>
    ELSE <<pr.comm>>

\* the command lines a process of the model can have
Cmdlines ==
    {<<>>, <<"other">>} \cup {<<Tool, "tunnel", "run">> \o <<n>> : n \in Names}

VARIABLES
    procs,      \* process table: Pids -> process record
    pidfile,    \* Names -> file: /tmp/cloudflared-<name>.pid
    log,        \* Names -> NoLog or line count: /tmp/cloudflared-<name>.log
    ctx,        \* Inv -> position and locals of the operation in flight
    live,       \* history: Names -> last successful start and what became of it
    last        \* history: outcome of the operation that has just returned

vars == <<procs, pidfile, log, ctx, live, last>>


(***************************************************************************)
(* What the supervisor can observe of the OS                               *)
(***************************************************************************)
\* os.kill(pid, sig) does not raise ProcessLookupError: the identifier is in
\* the process table (a zombie still is)
KillExists(pr, v) == v \in Pids /\ pr[v].st # "free"

\* how os.kill(pid, sig) ends: "ok", ProcessLookupError ("ESRCH") or
\* PermissionError ("EPERM", the process belongs to another user)
Kill(pr, v) ==
    IF ~KillExists(pr, v) THEN "ESRCH" ELSE IF pr[v].own THEN "ok" ELSE "EPERM"

\* stdout of  ps -p <pid> -o comm=  : the command name, also for a zombie
PsComm(pr, v) == IF v \in Pids /\ pr[v].st # "free" THEN <<pr[v].comm>> ELSE <<>>

\* 'cloudflared' in result.stdout
CommMatches(out) == \E k \in 1..Len(out) : out[k] = Tool

\* regex cloudflared.*tunnel.*run.*<name> searched in one command line
PatternMatches(n, cmd) ==
    \E a \in 1..Len(cmd) : /\ cmd[a] = Tool
      /\ \E b \in (a + 1)..Len(cmd) : /\ cmd[b] = "tunnel"
        /\ \E c \in (b + 1)..Len(cmd) : /\ cmd[c] = "run"
          /\ \E d \in (c + 1)..Len(cmd) : IsSubstr(n, cmd[d])

\* the outcome of that search for each name and command line, computed once
Matched == [n \in Names |-> [cmd \in Cmdlines |-> PatternMatches(n, cmd)] @@ <<>>] @@ <<>>

\* pgrep -f cloudflared.*tunnel.*run.*<name> : identifiers of the matching
\* processes (a zombie has no command line and does not match)
Pgrep(pr, n) == {p \in Pids : Matched[n][Cmdline(pr[p])]}

\* subprocess._cleanup(), run by every Popen(): wait on the children whose
\* Popen object was dropped while they were running
Reap(i, pr) ==
    [p \in Pids |-> IF pr[p].st = "zombie" /\ pr[p].parent = i THEN FreeProc ELSE pr[p]]

\* the supervisor process i ends: init inherits its children and waits on the
\* dead ones
Orphaned(i, pr) ==
    [p \in Pids |-> IF pr[p].parent # i THEN pr[p]
                    ELSE IF pr[p].st = "zombie" THEN FreeProc
                    ELSE [pr[p] EXCEPT !.parent = 0]]

\* the process table once an operation of i has returned
Returned(i, pr) == IF i = Cli THEN Orphaned(i, pr) ELSE pr

\* a process ends: it stays a zombie while its parent supervisor lives and
\* has not waited on it
Dead(pr) == IF pr.parent \in Inv THEN [pr EXCEPT !.st = "zombie"] ELSE FreeProc

(***************************************************************************)
(* is_tunnel_running: result and side effects of one probe                 *)
(***************************************************************************)
\* a probe that never looks at the PID file (lines 89-116 left out)
ProbeScanOnly(i, n, pf, pr) ==
    LET pr1 == Reap(i, pr)
        scan == Pgrep(pr1, n)
    IN  [running |-> scan # {}, pid |-> IF scan # {} THEN Min(scan) ELSE 0,
         pf |-> pf, pr |-> pr1, crash |-> FALSE]

\* a probe that trusts any recorded identifier that exists (lines 97-107, the
\* command-name check, left out)
ProbeNoComm(i, n, pf, pr) ==
    LET f == pf[n]
        parsed == Parsed[f.data]
        v == parsed.val
        pr1 == Reap(i, pr)
        scan == Pgrep(pr1, n)
    IN  IF f.ex /\ parsed.ok /\ Kill(pr, v) = "ok"
        THEN [running |-> TRUE, pid |-> v, pf |-> pf, pr |-> pr1, crash |-> FALSE]
        ELSE [running |-> scan # {}, pid |-> IF scan # {} THEN Min(scan) ELSE 0,
              pf |-> [pf EXCEPT ![n] = NoFile], pr |-> pr1, crash |-> FALSE]

\* a probe that leaves a record it could not verify in place (lines 113 and
\* 116, the unlink calls, left out)
ProbeNoHeal(i, n, pf, pr) ==
    LET f == pf[n]
        parsed == Parsed[f.data]
        v == parsed.val
        pr1 == Reap(i, pr)
        scan == Pgrep(pr1, n)
    IN  IF f.ex /\ parsed.ok /\ Kill(pr, v) = "ok" /\ CommMatches(PsComm(pr1, v))
        THEN [running |-> TRUE, pid |-> v, pf |-> pf, pr |-> pr1, crash |-> FALSE]
        ELSE [running |-> scan # {}, pid |-> IF scan # {} THEN Min(scan) ELSE 0,
              pf |-> pf, pr |-> pr1, crash |-> FALSE]

Probe(i, n, pf, pr) ==
    LET f == pf[n]
        parsed == Parsed[f.data]
        v == parsed.val
        exists == f.ex /\ parsed.ok /\ Kill(pr, v) = "ok"
        pr1 == Reap(i, pr)
        recOk == exists /\ CommMatches(PsComm(pr1, v))
        scan == Pgrep(pr1, n)
    IN  IF f.ex /\ parsed.ok /\ parsed.wide
        THEN [running |-> FALSE, pid |-> 0, pf |-> pf, pr |-> pr, crash |-> TRUE]
        ELSE IF recOk
        THEN [running |-> TRUE, pid |-> v, pf |-> pf, pr |-> pr1, crash |-> FALSE]
        ELSE [running |-> scan # {},
              pid |-> IF scan # {} THEN Min(scan) ELSE 0,
              pf |-> [pf EXCEPT ![n] = NoFile],
              pr |-> pr1, crash |-> FALSE]

(***************************************************************************)
(* Operation context and history records                                   *)
(***************************************************************************)
NoLive == [pid |-> 0, st |-> "none"]

\* pid: the identifier the probe of the operation returned, 0 for None
\* gone: the process a stop is after has ended since the probe of the stop,
\*   before the poll loop of the stop ran out
\* removed: the log file a start opened has been removed from outside since
\* arg: the config_file argument of a start; conf: the config file its
\*   command line got; warn: it printed the warning of line 150
Idle == [pc |-> "idle", name |-> <<>>, caller |-> "none", pid |-> 0, k |-> 0,
         child |-> 0, sigs |-> {}, gone |-> FALSE, removed |-> FALSE,
         arg |-> "none", conf |-> "none", warn |-> FALSE]

NoLast == [op |-> "none", name |-> <<>>, out |-> "none", via |-> "none",
           pid |-> 0, sigs |-> {}, born |-> {}, recB |-> NoFile, logB |-> NoLog,
           recTouched |-> FALSE, logTouched |-> FALSE, afterStop |-> FALSE,
           gone |-> FALSE, removed |-> FALSE, hurt |-> FALSE, lines |-> 0,
           shown |-> 0,
           exp |-> NoLive, arg |-> "none", conf |-> "none", warn |-> FALSE]

\* the call on name n comes right after a stop_tunnel(n) that reported success
AfterStopOf(n) == last.op = "stop" /\ last.out = "ok" /\ last.name = n

\* the context of a function call on name n
Enter(n, caller) == [Idle EXCEPT !.name = n, !.caller = caller]

\* one supervisor operation at a time: the single-operator use of section 5
Alone(i) == \A j \in Inv \ {i} : ctx[j].pc = "idle"

\* identifiers that name a process after a step and named none before it
Born(pr, pr2) == {p \in Pids : pr[p].st = "free" /\ pr2[p].st # "free"}

\* the history record of function op returning out from context c; pr2, pf2
\* and lg2 are the process table, the PID files and the logs its last step
\* leaves; hurt: that step changed a live process
Return(c, op, out, pid, pr2, pf2, lg2) ==
    [op |-> op, name |-> c.name, out |-> out, via |-> c.caller,
     pid |-> pid, sigs |-> c.sigs, born |-> Born(procs, pr2),
     recB |-> pidfile[c.name], logB |-> log[c.name],
     recTouched |-> pf2[c.name] # pidfile[c.name],
     logTouched |-> lg2 # log,
     afterStop |-> AfterStopOf(c.name),
     gone |-> c.gone, removed |-> c.removed,
     hurt |-> \E p \in Pids : procs[p].st = "alive" /\ pr2[p] # procs[p],
     lines |-> 0, shown |-> 0,
     exp |-> IF op = "status" THEN live[c.name] ELSE NoLive,
     arg |-> c.arg, conf |-> c.conf, warn |-> c.warn]

TypeOK ==
    /\ \A p \in Pids : procs[p].st \in {"free", "alive", "zombie"}
    /\ \A n \in Names : log[n] \in NoLog..MaxLog
    /\ \A i \in Inv : ctx[i].k \in 0..MaxPolls

(***************************************************************************)
(* Initial state: no process yet; /tmp holds at most the files of one name, *)
(* left there by an earlier session or by something else: a PID file the   *)
(* supervisor did not write, a log file with lines in it                   *)
(***************************************************************************)
Init ==
    /\ procs = [p \in Pids |-> FreeProc]
    /\ \E n \in Names :
          /\ \E f \in {NoFile} \cup {File(d) : d \in ForeignContents} :
                pidfile = [m \in Names |-> IF m = n THEN f ELSE NoFile]
          /\ \E l \in {NoLog} \cup 1..MaxLog :
                log = [m \in Names |-> IF m = n THEN l ELSE NoLog]
    /\ ctx = [i \in Inv |-> Idle]
    /\ live = [n \in Names |-> NoLive]
    /\ last = NoLast

\* the same, with a PID file that holds a number too wide for a process
\* identifier
InitWide ==
    /\ procs = [p \in Pids |-> FreeProc]
    /\ \E n \in Names :
          pidfile = [m \in Names |-> IF m = n THEN File(WideContents) ELSE NoFile]
    /\ log = [m \in Names |-> NoLog]
    /\ ctx = [i \in Inv |-> Idle]
    /\ live = [n \in Names |-> NoLive]
    /\ last = NoLast

\* a process of the table ends: the history notes it for the starts it ends
Note(lv, p) ==
    [n \in Names |-> IF lv[n].st = "up" /\ lv[n].pid = p
                     THEN [pid |-> 0, st |-> "dead"] ELSE lv[n]]

\* a new call closes the window in which the next operation must see a death
Seen(lv) == [n \in Names |-> IF lv[n].st = "dead" THEN NoLive ELSE lv[n]]

\* an exception no handler of the supervisor catches leaves function op:
\* the command-line process dies of it, the menu prints it (line 1068) and
\* shows its options again
Crashed(i, c, op) ==
    /\ procs' = Returned(i, procs)
    /\ ctx' = [ctx EXCEPT ![i] = Idle]
    /\ last' = Return(c, op, "crash", 0, procs, pidfile, log)

(***************************************************************************)
(* What an operation prints when it returns: the pieces of the f-string    *)
(***************************************************************************)
\* get_log_file: /tmp/cloudflared-<name>.log
LogFile(n) == <<"/tmp/cloudflared-">> \o n \o <<".log">>

\* str(e) of the exceptions of the model: Popen finds no binary or cannot
\* fork, os.kill is refused
ErrTexts ==
    {<<"[Errno 2] No such file or directory: 'cloudflared'">>,
     <<"[Errno 11] Resource temporarily unavailable">>,
     <<"[Errno 1] Operation not permitted">>}

\* the lines printed on return out of start_tunnel or stop_tunnel for name
\* n with identifier pid, as sequences of pieces; err is the text of the
\* exception caught, if any
Message(op, out, n, pid, err) ==
    CASE op = "start" /\ out = "AlreadyRunning" ->
           <<<<"Tunnel '">>, n, <<"' is already running (PID: ">>, ToStr(pid), <<")">>>>
      [] op = "start" /\ out = "ok" ->
           <<<<"Started tunnel '">>, n, <<"' (PID: ">>, ToStr(pid), <<")">>,
             <<"  Log file: ">>, LogFile(n)>>
      [] op = "start" /\ out = "StartFailed" ->
           <<<<"Failed to start tunnel '">>, n, <<"'">>,
             <<"  Check log file: ">>, LogFile(n)>>
      [] op = "start" /\ out = "SpawnFailed" ->
           <<<<"Error starting tunnel: ">>, err>>
      [] op = "stop" /\ out = "NotRunning" ->
           <<<<"Tunnel '">>, n, <<"' is not running">>>>
      [] op = "stop" /\ out = "ok" ->
           <<<<"Stopped tunnel '">>, n, <<"' (PID: ">>, ToStr(pid), <<")">>>>
      [] op = "stop" /\ out = "gone" ->
           <<<<"Tunnel '">>, n, <<"' stopped">>>>
      [] op = "stop" /\ out = "error" ->
           <<<<"Error stopping tunnel: ">>, err>>
      [] OTHER -> <<>>

\* message m has piece x in it
Carries(m, x) == \E k \in 1..Len(m) : m[k] = x

(***************************************************************************)
(* start_tunnel                                                            *)
(***************************************************************************)
\* the names whose default config file, ~/.cloudflared/<name>.yml, exists
ConfigDir == {NameA}

\* the config_file argument: None, the path of a file that exists, the path
\* of one that does not
Args == {"none", "file", "nofile"}

\* lines 144-157: the config file the command line gets for name n and
\* argument arg, and whether the warning is printed
ResolveConfig(n, arg) ==
    LET found == IF arg = "none"
                 THEN IF n \in ConfigDir THEN "default" ELSE "none"
                 ELSE arg
    IN  [conf |-> CASE found = "default" -> "default"
                    [] found = "file" -> "explicit"
                    [] OTHER -> "none",
         warn |-> arg = "none" /\ n \notin ConfigDir]

\* the context of a start once lines 144-157 have run
Configured(c) ==
    LET r == ResolveConfig(c.name, c.arg)
    IN  [c EXCEPT !.conf = r.conf, !.warn = r.warn]

\* a start that does not look at the result of its probe (lines 137-139 left
\* out)
StartProbeNoCheck(i, n) ==
    /\ \/ ctx[i].pc = "idle"
       \/ ctx[i].pc = "restart_start" /\ ctx[i].name = n
    /\ LET r == Probe(i, n, pidfile, procs)
           c == Enter(n, IF ctx[i].pc = "idle" THEN "direct" ELSE "restart")
       IN  /\ pidfile' = r.pf
           /\ procs' = r.pr
           /\ ctx' = [ctx EXCEPT ![i] = [c EXCEPT !.pc = "start_spawn", !.pid = r.pid]]
    /\ live' = Seen(live)
    /\ last' = NoLast
    /\ log' = log

\* the operator gives a config file with the start: -c on the command line
\* (line 748), the answer to the prompt of the menu (line 945)
Argument(i, arg) ==
    /\ ctx[i].pc = "idle"
    /\ ctx[i].arg = "none"
    /\ arg # "none"
    /\ ctx' = [ctx EXCEPT ![i] = [@ EXCEPT !.arg = arg]]
    /\ UNCHANGED <<procs, pidfile, log, live, last>>

\* lines 134-139: start_tunnel(n, config_file): probe, refuse when running
StartProbe(i, n) ==
    /\ \/ ctx[i].pc = "idle"
       \/ ctx[i].pc = "restart_start" /\ ctx[i].name = n
    /\ LET r == Probe(i, n, pidfile, procs)
           c == [Enter(n, IF ctx[i].pc = "idle" THEN "direct" ELSE "restart")
                    EXCEPT !.arg = ctx[i].arg]
       IN  /\ pidfile' = r.pf
           /\ live' = Seen(live)
           /\ IF r.crash THEN Crashed(i, c, "start")
              ELSE IF r.running
              THEN /\ procs' = Returned(i, r.pr)
                   /\ ctx' = [ctx EXCEPT ![i] = Idle]
                   /\ last' = Return(c, "start", "AlreadyRunning", r.pid, r.pr, r.pf, log)
              ELSE /\ procs' = r.pr
                   /\ ctx' = [ctx EXCEPT ![i] = [c EXCEPT !.pc = "start_spawn", !.pid = r.pid]]
                   /\ last' = NoLast
    /\ log' = log

\* a spawn step that opens the log for appending (mode 'a' for the 'w' of
\* line 161)
StartSpawnAppend(i) ==
    /\ ctx[i].pc = "start_spawn"
    /\ LET c == Configured(ctx[i])
           n == c.name
           lg == [log EXCEPT ![n] = IF @ = NoLog THEN 0 ELSE @]
           pr1 == Reap(i, procs)
       IN  /\ log' = lg
           /\ \/ \E p \in Pids :
                    /\ pr1[p].st = "free"
                    /\ procs' = [pr1 EXCEPT ![p] = [st |-> "alive", comm |-> Tool,
                                     tunnel |-> n, parent |-> i, own |-> TRUE]]
                    /\ pidfile' = [pidfile EXCEPT ![n] = File(ToStr(p))]
                    /\ ctx' = [ctx EXCEPT ![i] = [c EXCEPT !.pc = "start_settle", !.child = p]]
                    /\ last' = NoLast
              \/ /\ procs' = Returned(i, pr1)
                 /\ pidfile' = [pidfile EXCEPT ![n] = NoFile]
                 /\ ctx' = [ctx EXCEPT ![i] = Idle]
                 /\ last' = Return(c, "start", "SpawnFailed", 0, pr1,
                                   [pidfile EXCEPT ![n] = NoFile], lg)
    /\ live' = live

\* a spawn step that leaves the writing of the PID file out (lines 169-171)
StartSpawnNoRecord(i) ==
    /\ ctx[i].pc = "start_spawn"
    /\ LET c == Configured(ctx[i])
           n == c.name
           lg == [log EXCEPT ![n] = 0]
           pr1 == Reap(i, procs)
       IN  /\ log' = lg
           /\ \/ \E p \in Pids :
                    /\ pr1[p].st = "free"
                    /\ procs' = [pr1 EXCEPT ![p] = [st |-> "alive", comm |-> Tool,
                                     tunnel |-> n, parent |-> i, own |-> TRUE]]
                    /\ pidfile' = pidfile
                    /\ ctx' = [ctx EXCEPT ![i] = [c EXCEPT !.pc = "start_settle", !.child = p]]
                    /\ last' = NoLast
              \/ /\ procs' = Returned(i, pr1)
                 /\ pidfile' = [pidfile EXCEPT ![n] = NoFile]
                 /\ ctx' = [ctx EXCEPT ![i] = Idle]
                 /\ last' = Return(c, "start", "SpawnFailed", 0, pr1,
                                   [pidfile EXCEPT ![n] = NoFile], lg)
    /\ live' = live

\* lines 159-171 and 187-191: truncate the log, Popen, write the PID file;
\* Popen may raise (binary missing, fork refused)
StartSpawn(i) ==
    /\ ctx[i].pc = "start_spawn"
    /\ LET c == Configured(ctx[i])
           n == c.name
           lg == [log EXCEPT ![n] = 0]
           pr1 == Reap(i, procs)
       IN  /\ log' = lg
           /\ \/ \E p \in Pids :
                    /\ pr1[p].st = "free"
                    /\ procs' = [pr1 EXCEPT ![p] = [st |-> "alive", comm |-> Tool,
                                     tunnel |-> n, parent |-> i, own |-> TRUE]]
                    /\ pidfile' = [pidfile EXCEPT ![n] = File(ToStr(p))]
                    /\ ctx' = [ctx EXCEPT ![i] = [c EXCEPT !.pc = "start_settle", !.child = p]]
                    /\ last' = NoLast
              \/ /\ procs' = Returned(i, pr1)
                 /\ pidfile' = [pidfile EXCEPT ![n] = NoFile]
                 /\ ctx' = [ctx EXCEPT ![i] = Idle]
                 /\ last' = Return(c, "start", "SpawnFailed", 0, pr1,
                                   [pidfile EXCEPT ![n] = NoFile], lg)
    /\ live' = live

\* a settle step that reports the failure and leaves the PID file where it
\* is (the unlink of lines 183-184 left out)
StartSettleNoUnlink(i) ==
    /\ ctx[i].pc = "start_settle"
    /\ LET c == ctx[i]
           n == c.name
           p == c.child
       IN  IF procs[p].st = "alive"
           THEN /\ procs' = Returned(i, procs)
                /\ live' = [live EXCEPT ![n] = [pid |-> p, st |-> "up"]]
                /\ last' = Return(c, "start", "ok", p, procs, pidfile, log)
           ELSE /\ procs' = Returned(i, [procs EXCEPT ![p] = FreeProc])
                /\ live' = live
                /\ last' = Return(c, "start", "StartFailed", 0,
                                  [procs EXCEPT ![p] = FreeProc], pidfile, log)
    /\ ctx' = [ctx EXCEPT ![i] = Idle]
    /\ UNCHANGED <<pidfile, log>>

\* lines 174-185: after the sleep, process.poll()
StartSettle(i) ==
    /\ ctx[i].pc = "start_settle"
    /\ LET c == ctx[i]
           n == c.name
           p == c.child
       IN  IF procs[p].st = "alive"
           THEN /\ procs' = Returned(i, procs)
                /\ pidfile' = pidfile
                /\ live' = [live EXCEPT ![n] = [pid |-> p, st |-> "up"]]
                /\ last' = Return(c, "start", "ok", p, procs, pidfile, log)
           ELSE /\ procs' = Returned(i, [procs EXCEPT ![p] = FreeProc])
                /\ pidfile' = [pidfile EXCEPT ![n] = NoFile]
                /\ live' = live
                /\ last' = Return(c, "start", "StartFailed", 0,
                                  [procs EXCEPT ![p] = FreeProc],
                                  [pidfile EXCEPT ![n] = NoFile], log)
    /\ ctx' = [ctx EXCEPT ![i] = Idle]
    /\ log' = log

(***************************************************************************)
(* stop_tunnel                                                             *)
(***************************************************************************)
\* a restart_tunnel that goes on to start_tunnel whatever stop_tunnel
\* returned (the return of line 248 left out)
AfterStopIgnoresFailure(c, ok) ==
    IF c.caller = "restart"
    THEN [Idle EXCEPT !.pc = "restart_start", !.name = c.name, !.caller = "restart",
                      !.arg = c.arg]
    ELSE Idle

\* where stop_tunnel returns to: the caller of restart_tunnel goes on after
\* a success and gives up after a failure; delete_tunnel does not look at
\* the result (line 465) and goes on
AfterStop(c, ok) ==
    IF c.caller = "restart" /\ ok
    THEN [Idle EXCEPT !.pc = "restart_start", !.name = c.name, !.caller = "restart",
                      !.arg = c.arg]
    ELSE IF c.caller = "delete"
    THEN [Idle EXCEPT !.pc = "delete_stopped", !.name = c.name, !.caller = "delete",
                      !.pid = c.pid]
    ELSE Idle

\* the process table when stop_tunnel returns with result ok: the
\* command-line process ends unless restart_tunnel or delete_tunnel goes on
StopLeaves(i, c, ok) ==
    IF AfterStop(c, ok).pc = "idle" THEN Returned(i, procs) ELSE procs

\* lines 195-199: probe, refuse when not running
StopProbe(i, n) ==
    /\ \/ ctx[i].pc = "idle"
       \/ ctx[i].pc \in {"restart_stop", "delete_stop"} /\ ctx[i].name = n
    /\ LET r == Probe(i, n, pidfile, procs)
           c == [Enter(n, CASE ctx[i].pc = "idle" -> "direct"
                            [] ctx[i].pc = "restart_stop" -> "restart"
                            [] OTHER -> "delete")
                    EXCEPT !.pid = ctx[i].pid]
       IN  /\ pidfile' = r.pf
           /\ live' = [Seen(live) EXCEPT ![n] = NoLive]
           /\ IF r.crash THEN Crashed(i, c, "stop")
              ELSE IF r.running
              THEN /\ procs' = r.pr
                   /\ ctx' = [ctx EXCEPT ![i] = [c EXCEPT !.pc = "stop_term", !.pid = r.pid]]
                   /\ last' = NoLast
              ELSE /\ procs' = IF c.caller = "delete" THEN r.pr ELSE Returned(i, r.pr)
                   /\ ctx' = [ctx EXCEPT ![i] = IF c.caller = "delete"
                                                 THEN AfterStop(c, FALSE) ELSE Idle]
                   /\ last' = Return(c, "stop", "NotRunning", 0, r.pr, r.pf, log)
    /\ log' = log

\* a stop that reports success and leaves the PID file where it is (the
\* unlink of lines 222-223 and 231-232 left out)
StopDoneNoUnlink(i, c) ==
    /\ ctx' = [ctx EXCEPT ![i] = AfterStop(c, TRUE)]
    /\ last' = Return(c, "stop", "ok", c.pid, procs, pidfile, log)
    /\ procs' = StopLeaves(i, c, TRUE)
    /\ UNCHANGED <<pidfile, log, live>>

\* a stop that clears the PID files of all names on success (a glob for the
\* one path of lines 221-223)
StopDoneUnlinkAll(i, c) ==
    /\ pidfile' = [n \in Names |-> NoFile]
    /\ ctx' = [ctx EXCEPT ![i] = AfterStop(c, TRUE)]
    /\ last' = Return(c, "stop", "ok", c.pid, procs,
                      [pidfile EXCEPT ![c.name] = NoFile], log)
    /\ procs' = StopLeaves(i, c, TRUE)
    /\ UNCHANGED <<log, live>>

\* lines 223-227 and 232-235: the PID file is unlinked if it was there,
\* success is reported
StopReturn(i, c) ==
    /\ pidfile' = [pidfile EXCEPT ![c.name] = NoFile]
    /\ ctx' = [ctx EXCEPT ![i] = AfterStop(c, TRUE)]
    /\ last' = Return(c, "stop", "ok", c.pid, procs,
                      [pidfile EXCEPT ![c.name] = NoFile], log)
    /\ procs' = StopLeaves(i, c, TRUE)
    /\ UNCHANGED <<log, live>>

\* lines 221-227 and 229-235: pid_file.exists(), then pid_file.unlink(),
\* then the report.  With no other invocation in flight nothing can remove
\* the file between the two calls and they are one step; otherwise the
\* unlink is a step of its own
StopDone(i, c) ==
    IF Alone(i) \/ ~pidfile[c.name].ex
    THEN StopReturn(i, c)
    ELSE /\ ctx' = [ctx EXCEPT ![i] = [c EXCEPT !.pc = "stop_unlink"]]
         /\ last' = NoLast
         /\ UNCHANGED <<procs, pidfile, log, live>>

\* lines 236-238: any other exception of the SIGTERM: report the error,
\* return False
StopError(i, c) ==
    /\ ctx' = [ctx EXCEPT ![i] = AfterStop(c, FALSE)]
    /\ last' = Return(c, "stop", "error", c.pid, procs, pidfile, log)
    /\ procs' = StopLeaves(i, c, FALSE)
    /\ UNCHANGED <<pidfile, log, live>>

\* line 203: os.kill(pid, SIGTERM); ProcessLookupError is a success, any
\* other exception an error
StopTerm(i) ==
    /\ ctx[i].pc = "stop_term"
    /\ LET c == ctx[i] IN
       CASE Kill(procs, c.pid) = "ok" ->
              /\ ctx' = [ctx EXCEPT ![i] = [c EXCEPT !.pc = "stop_poll", !.k = 0,
                                               !.sigs = c.sigs \cup {<<c.pid, "TERM">>}]]
              /\ UNCHANGED <<procs, pidfile, log, live, last>>
         [] Kill(procs, c.pid) = "ESRCH" -> StopDone(i, c)
         [] Kill(procs, c.pid) = "EPERM" -> StopError(i, c)

\* a poll loop that does not count its rounds (while True for the
\* range(10) of line 206)
StopPollNoCount(i) ==
    /\ ctx[i].pc = "stop_poll"
    /\ ctx[i].k < MaxPolls
    /\ LET c == ctx[i] IN
       IF Kill(procs, c.pid) = "ok"
       THEN UNCHANGED <<procs, pidfile, log, live, last, ctx>>
       ELSE StopDone(i, c)

\* lines 206-212: one round of the poll loop: os.kill(pid, 0), then sleep(1)
\* or break
StopPoll(i) ==
    /\ ctx[i].pc = "stop_poll"
    /\ ctx[i].k < MaxPolls
    /\ LET c == ctx[i] IN
       IF Kill(procs, c.pid) = "ok"
       THEN /\ ctx' = [ctx EXCEPT ![i] = [c EXCEPT !.k = c.k + 1]]
            /\ UNCHANGED <<procs, pidfile, log, live, last>>
       ELSE StopDone(i, c)

\* lines 213-219: the loop ran out: os.kill(pid, SIGKILL), then sleep(1);
\* any exception is swallowed
StopKill(i) ==
    /\ ctx[i].pc = "stop_poll"
    /\ ctx[i].k = MaxPolls
    /\ LET c == ctx[i] IN
       IF Kill(procs, c.pid) = "ok"
       THEN /\ procs' = [procs EXCEPT ![c.pid] =
                            IF @.st = "alive" THEN Dead(@) ELSE @]
            /\ live' = IF procs[c.pid].st = "alive" THEN Note(live, c.pid) ELSE live
            /\ ctx' = [ctx EXCEPT ![i] = [c EXCEPT !.pc = "stop_clean",
                                             !.sigs = c.sigs \cup {<<c.pid, "KILL">>}]]
            /\ UNCHANGED <<pidfile, log, last>>
       ELSE StopDone(i, c)

\* lines 221-227 after the forced kill
StopClean(i) ==
    /\ ctx[i].pc = "stop_clean"
    /\ StopDone(i, ctx[i])

\* lines 223 and 232: pid_file.unlink() after exists() said yes.  When the
\* file has gone since, unlink raises FileNotFoundError: at line 223 the
\* handler of line 236 reports it as an error; at line 232, inside the
\* handler of ProcessLookupError (the SIGTERM found no process, no signal
\* was sent), nothing catches it
StopUnlink(i) ==
    /\ ctx[i].pc = "stop_unlink"
    /\ LET c == ctx[i] IN
       IF pidfile[c.name].ex THEN StopReturn(i, c)
       ELSE IF c.sigs = {}
       THEN Crashed(i, c, "stop") /\ UNCHANGED <<pidfile, log, live>>
       ELSE StopError(i, c)

(***************************************************************************)
(* restart_tunnel, status                                                  *)
(***************************************************************************)
\* a restart that calls stop_tunnel whatever its probe said (the test of
\* line 246 left out)
RestartProbeAlwaysStop(i, n) ==
    /\ ctx[i].pc = "idle"
    /\ LET r == Probe(i, n, pidfile, procs)
           c == Enter(n, "restart")
       IN  /\ procs' = r.pr
           /\ pidfile' = r.pf
           /\ ctx' = [ctx EXCEPT ![i] = [c EXCEPT !.pc = "restart_stop"]]
           /\ last' = Return(c, "restart", IF r.running THEN "stop" ELSE "start",
                             r.pid, r.pr, r.pf, log)
    /\ live' = [Seen(live) EXCEPT ![n] = NoLive]
    /\ log' = log

\* lines 245-252: probe, then stop_tunnel if running, then start_tunnel
RestartProbe(i, n) ==
    /\ ctx[i].pc = "idle"
    /\ LET r == Probe(i, n, pidfile, procs)
           c == [Enter(n, "restart") EXCEPT !.arg = ctx[i].arg]
       IN  /\ pidfile' = r.pf
           /\ IF r.crash THEN Crashed(i, c, "restart")
              ELSE /\ procs' = r.pr
                   /\ ctx' = [ctx EXCEPT ![i] =
                                 [c EXCEPT !.pc = IF r.running THEN "restart_stop"
                                                              ELSE "restart_start"]]
                   /\ last' = Return(c, "restart", IF r.running THEN "stop" ELSE "start",
                                     r.pid, r.pr, r.pf, log)
    /\ live' = [Seen(live) EXCEPT ![n] = NoLive]
    /\ log' = log

\* lines 444-466: delete_tunnel(n): the tunnel is looked up in the list of
\* the account; when it is there and is_tunnel_running says it runs, the
\* operator is asked (unless force) and stop_tunnel is called
DeleteProbe(i, n) ==
    /\ ctx[i].pc = "idle"
    /\ LET c == Enter(n, "delete")
           pr0 == Reap(i, procs)
           r == Probe(i, n, pidfile, pr0)
       IN  \/ /\ procs' = Returned(i, pr0)
              /\ ctx' = [ctx EXCEPT ![i] = Idle]
              /\ last' = Return(c, "delete", "NoSuchTunnel", 0, pr0, pidfile, log)
              /\ UNCHANGED <<pidfile, live>>
           \/ /\ pidfile' = r.pf
              /\ live' = [Seen(live) EXCEPT ![n] = NoLive]
              /\ IF r.crash
                 THEN /\ procs' = Returned(i, pr0)
                      /\ ctx' = [ctx EXCEPT ![i] = Idle]
                      /\ last' = Return(c, "delete", "error", 0, pr0, pidfile, log)
                 ELSE \/ /\ r.running
                         /\ procs' = Returned(i, r.pr)
                         /\ ctx' = [ctx EXCEPT ![i] = Idle]
                         /\ last' = Return(c, "delete", "Cancelled", r.pid, r.pr, r.pf, log)
                      \/ /\ procs' = r.pr
                         /\ ctx' = [ctx EXCEPT ![i] =
                                       [c EXCEPT !.pc = IF r.running THEN "delete_stop"
                                                                    ELSE "delete_run",
                                                 !.pid = r.pid]]
                         /\ last' = NoLast
    /\ log' = log

\* lines 466-509: after the pause the operator is asked (unless force),
\* cloudflared tunnel delete -f is run, and when it succeeds the log file and
\* the PID file of the name are removed.  In the history record of a
\* delete, afterStop says that stop_tunnel was called in it and pid is the
\* identifier that was to be stopped
DeleteRun(i) ==
    /\ ctx[i].pc \in {"delete_run", "delete_stopped"}
    /\ LET c == ctx[i]
           n == c.name
           pr1 == Reap(i, procs)
           stopped == c.pc = "delete_stopped"
       IN  \/ /\ procs' = Returned(i, procs)
              /\ last' = [Return(c, "delete", "Cancelled", c.pid, procs, pidfile, log)
                             EXCEPT !.afterStop = stopped]
              /\ UNCHANGED <<pidfile, log>>
           \/ /\ procs' = Returned(i, pr1)
              /\ last' = [Return(c, "delete", "DeleteFailed", c.pid, pr1, pidfile, log)
                             EXCEPT !.afterStop = stopped]
              /\ UNCHANGED <<pidfile, log>>
           \/ /\ procs' = Returned(i, pr1)
              /\ pidfile' = [pidfile EXCEPT ![n] = NoFile]
              /\ log' = [log EXCEPT ![n] = NoLog]
              /\ last' = [Return(c, "delete", "ok", c.pid, pr1,
                                 [pidfile EXCEPT ![n] = NoFile],
                                 [log EXCEPT ![n] = NoLog])
                             EXCEPT !.afterStop = stopped]
    /\ ctx' = [ctx EXCEPT ![i] = Idle]
    /\ live' = live

\* line 270 (show_status): is_tunnel_running(name)
Status(i, n) ==
    /\ ctx[i].pc = "idle"
    /\ LET r == Probe(i, n, pidfile, procs)
           c == Enter(n, "direct")
       IN  /\ procs' = Returned(i, r.pr)
           /\ pidfile' = r.pf
           /\ last' = Return(c, "status",
                             IF r.crash THEN "crash"
                             ELSE IF r.running THEN "running" ELSE "stopped",
                             r.pid, r.pr, r.pf, log)
    /\ live' = Seen(live)
    /\ UNCHANGED <<log, ctx>>

(***************************************************************************)
(* tail_logs                                                               *)
(***************************************************************************)
\* the line counts a caller asks for: none, and more than a log here holds
TailLines == {0, MaxLog + 1}

\* a tail_logs that runs tail without looking for the file (lines 291-293
\* left out)
TailNoCheck(i, n, k) ==
    /\ ctx[i].pc = "idle"
    /\ LET c == Enter(n, "direct")
           pr1 == Reap(i, procs)
       IN  /\ procs' = Returned(i, pr1)
           /\ last' = [Return(c, "tail", "ok", 0, pr1, pidfile, log)
                          EXCEPT !.lines = k,
                                 !.shown = IF log[n] = NoLog THEN 0 ELSE Min({k, log[n]})]
    /\ UNCHANGED <<pidfile, log, ctx, live>>

\* lines 287-298: no log file: say so and return; else tail -n k on the file
TailLogs(i, n, k) ==
    /\ ctx[i].pc = "idle"
    /\ LET c == Enter(n, "direct")
           pr1 == Reap(i, procs)
       IN  IF log[n] = NoLog
           THEN /\ procs' = Returned(i, procs)
                /\ last' = [Return(c, "tail", "LogNotFound", 0, procs, pidfile, log)
                               EXCEPT !.lines = k]
           ELSE /\ procs' = Returned(i, pr1)
                /\ last' = [Return(c, "tail", "ok", 0, pr1, pidfile, log)
                               EXCEPT !.lines = k, !.shown = Min({k, log[n]})]
    /\ UNCHANGED <<pidfile, log, ctx, live>>

\* the interactive menu is left (option 9): its process ends
Exit ==
    /\ ctx[Menu].pc = "idle"
    /\ \E p \in Pids : procs[p].parent = Menu
    /\ procs' = Orphaned(Menu, procs)
    /\ last' = NoLast
    /\ UNCHANGED <<pidfile, log, ctx, live>>

(***************************************************************************)
(* The rest of the system                                                  *)
(***************************************************************************)
\* the steps of stop_tunnel between its probe and the end of its poll loop
StopPhases == {"stop_term", "stop_poll"}

\* a process ends: by itself, on a signal it received, or killed from outside
ProcExit(p) ==
    /\ procs[p].st = "alive"
    /\ procs' = [procs EXCEPT ![p] = Dead(@)]
    /\ live' = Note(live, p)
    /\ ctx' = [i \in Inv |-> IF ctx[i].pc \in StopPhases /\ ctx[i].pid = p
                              THEN [ctx[i] EXCEPT !.gone = TRUE] ELSE ctx[i]]
    /\ last' = NoLast
    /\ UNCHANGED <<pidfile, log>>

\* a process the supervisor did not spawn appears, possibly under a recycled
\* identifier: some other program, or the tool run by hand or by a service,
\* the tool as the supervisor's user or as another one
ExtSpawn(p) ==
    /\ procs[p].st = "free"
    /\ \E pr \in {[st |-> "alive", comm |-> "other", tunnel |-> <<>>, parent |-> 0, own |-> TRUE]}
              \cup {[st |-> "alive", comm |-> Tool, tunnel |-> n, parent |-> 0, own |-> o] :
                       n \in Names, o \in BOOLEAN} :
          procs' = [procs EXCEPT ![p] = pr]
    /\ last' = NoLast
    /\ UNCHANGED <<pidfile, log, ctx, live>>

\* the process start_tunnel spawned for n, whose output goes to the log of n
\* (line 164), writes a line
LogOutput(n) ==
    /\ log[n] # NoLog /\ log[n] < MaxLog
    /\ \/ live[n].st = "up" /\ procs[live[n].pid].st = "alive"
       \/ \E i \in Inv : /\ ctx[i].pc = "start_settle" /\ ctx[i].name = n
                          /\ procs[ctx[i].child].st = "alive"
    /\ log' = [log EXCEPT ![n] = @ + 1]
    /\ last' = NoLast
    /\ UNCHANGED <<procs, pidfile, ctx, live>>

\* the log file of n is removed from outside
LogRemove(n) ==
    /\ log[n] # NoLog
    /\ log' = [log EXCEPT ![n] = NoLog]
    /\ ctx' = [i \in Inv |-> IF ctx[i].pc = "start_settle" /\ ctx[i].name = n
                              THEN [ctx[i] EXCEPT !.removed = TRUE] ELSE ctx[i]]
    /\ last' = NoLast
    /\ UNCHANGED <<procs, pidfile, live>>

Next ==
    \/ \E i \in Inv : Alone(i) /\ \E n \in Names : StartProbe(i, n)
    \/ \E i \in Inv : Alone(i) /\ StartSpawn(i)
    \/ \E i \in Inv : Alone(i) /\ StartSettle(i)
    \/ \E i \in Inv : Alone(i) /\ \E n \in Names : StopProbe(i, n)
    \/ \E i \in Inv : Alone(i) /\ StopTerm(i)
    \/ \E i \in Inv : Alone(i) /\ StopPoll(i)
    \/ \E i \in Inv : Alone(i) /\ StopKill(i)
    \/ \E i \in Inv : Alone(i) /\ StopClean(i)
    \/ \E i \in Inv : Alone(i) /\ \E n \in Names : Status(i, n)
    \/ Alone(Menu) /\ Exit
    \/ \E p \in Pids : ProcExit(p)
    \/ \E p \in Pids : ExtSpawn(p)

Spec == Init /\ [][Next]_vars

\* the system of an operator who starts tunnels, with a config file or
\* without
NextConfig ==
    \/ \E i \in Inv : Alone(i) /\ \E arg \in Args : Argument(i, arg)
    \/ \E i \in Inv : Alone(i) /\ \E n \in Names : StartProbe(i, n)
    \/ \E i \in Inv : Alone(i) /\ StartSpawn(i)
    \/ \E i \in Inv : Alone(i) /\ StartSettle(i)
    \/ Alone(Menu) /\ Exit
    \/ \E p \in Pids : ProcExit(p)

SpecConfig == Init /\ [][NextConfig]_vars

\* the system of an operator who uses restart_tunnel only: the stop_tunnel
\* and start_tunnel steps are those restart_tunnel calls
InRestart(i) == ctx[i].caller = "restart"

NextRestart ==
    \/ \E i \in Inv : Alone(i) /\ \E n \in Names : RestartProbe(i, n)
    \/ \E i \in Inv : Alone(i) /\ InRestart(i) /\ \E n \in Names : StopProbe(i, n)
    \/ \E i \in Inv : Alone(i) /\ InRestart(i) /\ StopTerm(i)
    \/ \E i \in Inv : Alone(i) /\ InRestart(i) /\ StopPoll(i)
    \/ \E i \in Inv : Alone(i) /\ InRestart(i) /\ StopKill(i)
    \/ \E i \in Inv : Alone(i) /\ InRestart(i) /\ StopClean(i)
    \/ \E i \in Inv : Alone(i) /\ InRestart(i) /\ \E n \in Names : StartProbe(i, n)
    \/ \E i \in Inv : Alone(i) /\ InRestart(i) /\ StartSpawn(i)
    \/ \E i \in Inv : Alone(i) /\ InRestart(i) /\ StartSettle(i)
    \/ Alone(Menu) /\ Exit
    \/ \E p \in Pids : ProcExit(p)
    \/ \E p \in Pids : ExtSpawn(p)

SpecRestart == Init /\ [][NextRestart]_vars

\* the system of an operator who deletes tunnels: the stop_tunnel steps are
\* those delete_tunnel calls
InDelete(i) == ctx[i].caller = "delete"

NextDelete ==
    \/ \E i \in Inv : Alone(i) /\ \E n \in Names : DeleteProbe(i, n)
    \/ \E i \in Inv : Alone(i) /\ InDelete(i) /\ \E n \in Names : StopProbe(i, n)
    \/ \E i \in Inv : Alone(i) /\ InDelete(i) /\ StopTerm(i)
    \/ \E i \in Inv : Alone(i) /\ InDelete(i) /\ StopPoll(i)
    \/ \E i \in Inv : Alone(i) /\ InDelete(i) /\ StopKill(i)
    \/ \E i \in Inv : Alone(i) /\ InDelete(i) /\ StopClean(i)
    \/ \E i \in Inv : Alone(i) /\ DeleteRun(i)
    \/ \E p \in Pids : ProcExit(p)
    \/ \E p \in Pids : ExtSpawn(p)

SpecDelete == Init /\ [][NextDelete]_vars

\* the system of an operator who starts tunnels and reads their logs, with
\* the log files written by the tunnels and removable from outside
NextTail ==
    \/ \E i \in Inv : Alone(i) /\ \E n \in Names : StartProbe(i, n)
    \/ \E i \in Inv : Alone(i) /\ StartSpawn(i)
    \/ \E i \in Inv : Alone(i) /\ StartSettle(i)
    \/ \E i \in Inv : Alone(i) /\ \E n \in Names, k \in TailLines : TailLogs(i, n, k)
    \/ \E n \in Names : LogOutput(n)
    \/ \E n \in Names : LogRemove(n)
    \/ Alone(Menu) /\ Exit
    \/ \E p \in Pids : ProcExit(p)
    \/ \E p \in Pids : ExtSpawn(p)

SpecTail == Init /\ [][NextTail]_vars

\* the system of an operator who uses every operation, with the log files
\* written by the tunnels and removable from outside, and no process but
\* those the supervisor spawns
NextLog ==
    \/ \E i \in Inv : Alone(i) /\ \E n \in Names : StartProbe(i, n)
    \/ \E i \in Inv : Alone(i) /\ StartSpawn(i)
    \/ \E i \in Inv : Alone(i) /\ StartSettle(i)
    \/ \E i \in Inv : Alone(i) /\ \E n \in Names : StopProbe(i, n)
    \/ \E i \in Inv : Alone(i) /\ StopTerm(i)
    \/ \E i \in Inv : Alone(i) /\ StopPoll(i)
    \/ \E i \in Inv : Alone(i) /\ StopKill(i)
    \/ \E i \in Inv : Alone(i) /\ StopClean(i)
    \/ \E i \in Inv : Alone(i) /\ \E n \in Names : RestartProbe(i, n)
    \/ \E i \in Inv : Alone(i) /\ \E n \in Names : Status(i, n)
    \/ \E i \in Inv : Alone(i) /\ \E n \in Names, k \in TailLines : TailLogs(i, n, k)
    \/ \E n \in Names : LogOutput(n)
    \/ \E n \in Names : LogRemove(n)
    \/ Alone(Menu) /\ Exit
    \/ \E p \in Pids : ProcExit(p)

SpecLog == Init /\ [][NextLog]_vars

\* two terminal sessions start tunnels with nothing to keep their steps
\* apart: the menu and a command-line invocation, each at its own pace
NextStartRace ==
    \/ \E i \in Inv, n \in Names : StartProbe(i, n)
    \/ \E i \in Inv : StartSpawn(i)
    \/ \E i \in Inv : StartSettle(i)
    \/ Exit
    \/ \E p \in Pids : ProcExit(p)

SpecStartRace == Init /\ [][NextStartRace]_vars

\* a tunnel is running when the sessions begin: started from a command line
\* that has returned, or by the menu that is still open; its PID file is in
\* place and its log is open
InitRunning ==
    /\ \E n \in Names, p \in Pids, par \in {0, Menu} :
          /\ procs = [q \in Pids |-> IF q = p
                                     THEN [st |-> "alive", comm |-> Tool, tunnel |-> n,
                                           parent |-> par, own |-> TRUE]
                                     ELSE FreeProc]
          /\ pidfile = [m \in Names |-> IF m = n THEN File(ToStr(p)) ELSE NoFile]
          /\ log = [m \in Names |-> IF m = n THEN 0 ELSE NoLog]
          /\ live = [m \in Names |-> IF m = n THEN [pid |-> p, st |-> "up"] ELSE NoLive]
    /\ ctx = [i \in Inv |-> Idle]
    /\ last = NoLast

\* two terminal sessions stop tunnels with nothing to keep their steps apart
NextStopRace ==
    \/ \E i \in Inv, n \in Names : StopProbe(i, n)
    \/ \E i \in Inv : StopTerm(i)
    \/ \E i \in Inv : StopPoll(i)
    \/ \E i \in Inv : StopKill(i)
    \/ \E i \in Inv : StopClean(i)
    \/ \E i \in Inv : StopUnlink(i)
    \/ \E p \in Pids : ProcExit(p)

SpecStopRace == InitRunning /\ [][NextStopRace]_vars

\* the next step of the operation supervisor i is in
Step(i) ==
    /\ ctx[i].pc # "idle"
    /\ Alone(i)
    /\ \/ \E n \in Names : StartProbe(i, n) \/ StopProbe(i, n)
       \/ StartSpawn(i) \/ StartSettle(i)
       \/ StopTerm(i) \/ StopPoll(i) \/ StopKill(i) \/ StopClean(i) \/ StopUnlink(i)

\* the supervisor is a sequential program: a system call, a sleep of fixed
\* length or a child command it has begun comes back, and the next
\* statement runs
SpecFair == SpecLog /\ \A i \in Inv : WF_vars(Step(i))

\* every operation, from a PID file holding a number too wide
SpecWide == InitWide /\ [][NextLog]_vars


(***************************************************************************)
(* Properties                                                              *)
(***************************************************************************)
\* the identifier a record file names, 0 when it names none
RecPid(f) == IF f.ex /\ Parsed[f.data].ok THEN Parsed[f.data].val ELSE 0

\* a record that holds no number: empty, or with a character that is no digit
IsMalformed(f) == f.ex /\ f.data \in {<<>>, <<"1", "x">>}

\* the record of n names a live process whose command name is the tool
RecordSound(n) ==
    /\ RecPid(pidfile[n]) \in Pids
    /\ procs[RecPid(pidfile[n])].st = "alive"
    /\ procs[RecPid(pidfile[n])].comm = Tool

\* record f names a live process whose command name is the tool
NamesLiveTool(f) ==
    /\ RecPid(f) \in Pids
    /\ procs[RecPid(f)].st = "alive"
    /\ procs[RecPid(f)].comm = Tool

\* what status reports when all it has is the fallback scan
ScanVerdict(n) == IF Pgrep(procs, n) = {} THEN "stopped" ELSE "running"

\* the operation that has just returned did so from its probe
ReturnedFromProbe ==
    \/ last.op = "status"
    \/ last.op = "start" /\ last.out = "AlreadyRunning"
    \/ last.op = "stop" /\ last.out = "NotRunning"

\* C1: a status(N) issued after a successful start(N), with no stop(N) or
\* restart(N) called since and the spawned process not exited, reports
\* running with the identifier of the process that start spawned.
C1_StatusAfterStart ==
    (last.op = "status" /\ last.exp.st = "up")
        => (last.out = "running" /\ last.pid = last.exp.pid)

C1_Witness ==
    /\ last.op = "status" /\ last.exp.st = "up"
    /\ last.out = "running" /\ last.pid = last.exp.pid
    /\ Cardinality(Pgrep(procs, last.name)) = 2

\* C2: a start(N) goes on to spawn only when its probe found no running
\* process; a start(N) whose probe reports N running returns AlreadyRunning
\* having spawned no process and sent no signal.
C2_StartRefused ==
    /\ \A i \in Inv : ctx[i].pc \in {"start_spawn", "start_settle"} => ctx[i].pid = 0
    /\ (last.op = "start" /\ last.out = "AlreadyRunning")
          => (last.pid \in Pids /\ last.born = {} /\ last.sigs = {})

C2_Witness ==
    /\ last.op = "start" /\ last.out = "AlreadyRunning"
    /\ last.pid \in Pids /\ procs[last.pid].st = "alive"
    /\ RecPid(pidfile[last.name]) = last.pid
    /\ last.born = {} /\ last.sigs = {}

\* C3 as stated: a stop(N) that fails with NotRunning has changed neither
\* the record file nor the log file of N, whatever the record held.
C3_StopNotRunningNoMutation ==
    (last.op = "stop" /\ last.out = "NotRunning")
        => (~last.recTouched /\ ~last.logTouched)

\* C3 amended: a stop(N) that fails with NotRunning has not changed the log
\* file of N, has sent no signal and spawned nothing, and leaves no record
\* file for N: an absent record stays absent, a stale or malformed one has
\* been deleted by the probe.
C3_StopNotRunningHeals ==
    (last.op = "stop" /\ last.out = "NotRunning")
        => /\ ~last.logTouched
           /\ last.sigs = {} /\ last.born = {}
           /\ ~pidfile[last.name].ex
           /\ last.recTouched = last.recB.ex

C3_Witness ==
    /\ last.op = "stop" /\ last.out = "NotRunning"
    /\ last.recB.ex /\ last.recTouched /\ ~pidfile[last.name].ex

\* C4 as stated: a status(N) issued right after a stop(N) that returned
\* success reports not-running, and no record file for N exists.
C4_StatusAfterStop ==
    (last.op = "status" /\ last.afterStop)
        => (last.out = "stopped" /\ ~pidfile[last.name].ex)

\* C4 amended: a status(N) issued right after a stop(N) that returned
\* success finds no record file for N (the stop removed it, the probe has
\* nothing to reclaim) and reports what the fallback scan finds: not-running
\* unless another live process matches the command-line pattern of N, and
\* then that process.
C4_StatusAfterStopScan ==
    (last.op = "status" /\ last.afterStop)
        => /\ ~last.recB.ex /\ ~pidfile[last.name].ex
           /\ last.out = ScanVerdict(last.name)
           /\ last.out = "running" => last.pid = Min(Pgrep(procs, last.name))

C4_Witness ==
    /\ last.op = "status" /\ last.afterStop
    /\ last.out = "stopped" /\ ~pidfile[last.name].ex
    /\ \E p \in Pids : procs[p].st = "alive" /\ procs[p].comm = Tool

\* C5: when the record of N is malformed, the probe deletes it and the
\* operation ends as it would with no record: status reports what the
\* fallback scan finds, stop fails with NotRunning only when the scan finds
\* nothing, start is refused only with a match of the scan, and none of them
\* ends in another kind of failure.
C5_MalformedTreatedAsAbsent ==
    (ReturnedFromProbe /\ IsMalformed(last.recB))
        => /\ ~pidfile[last.name].ex
           /\ last.op = "status" => last.out = ScanVerdict(last.name)
           /\ last.op = "stop" => ScanVerdict(last.name) = "stopped"
           /\ last.op = "start" => last.pid \in Pgrep(procs, last.name)
           /\ last.pid # 0 => last.pid = Min(Pgrep(procs, last.name))

C5_Witness ==
    /\ last.op = "status" /\ last.recB = File(<<"1", "x">>)
    /\ procs[1].st = "alive" /\ procs[1].comm = Tool
    /\ last.out = "stopped" /\ ~pidfile[last.name].ex

\* C6: when the record of N names a live process whose command name is not
\* the tool, status(N) deletes the record and reports what the fallback scan
\* finds: not-running when it finds nothing.
C6_RecycledIdentifier ==
    ( /\ last.op = "status"
      /\ RecPid(last.recB) \in Pids
      /\ procs[RecPid(last.recB)].st = "alive"
      /\ procs[RecPid(last.recB)].comm # Tool )
        => /\ ~pidfile[last.name].ex
           /\ last.out = ScanVerdict(last.name)

C6_Witness ==
    /\ last.op = "status" /\ last.out = "stopped"
    /\ RecPid(last.recB) \in Pids
    /\ procs[RecPid(last.recB)].st = "alive"
    /\ procs[RecPid(last.recB)].comm # Tool
    /\ ~pidfile[last.name].ex

\* C7 as stated: a stop(N) called right after a stop(N) that returned
\* success fails with NotRunning and changes nothing.
C7_SecondStop ==
    [][\A i \in Inv, n \in Names :
         (AfterStopOf(n) /\ StopProbe(i, n))
            => /\ last'.op = "stop" /\ last'.out = "NotRunning"
               /\ pidfile' = pidfile /\ log' = log]_vars

\* C7 amended: a stop(N) called right after a stop(N) that returned success
\* changes no file in its probe; it fails with NotRunning, having sent no
\* signal, when no live process matches the command-line pattern of N, and
\* otherwise goes on to stop the first process that matches.
C7_SecondStopScan ==
    [][\A i \in Inv, n \in Names :
         (AfterStopOf(n) /\ StopProbe(i, n))
            => /\ pidfile' = pidfile /\ log' = log
               /\ IF Pgrep(procs, n) = {}
                  THEN /\ last'.op = "stop" /\ last'.out = "NotRunning"
                       /\ last'.sigs = {} /\ ctx'[i].pc = "idle"
                  ELSE /\ ctx'[i].pc = "stop_term"
                       /\ ctx'[i].pid = Min(Pgrep(procs, n))
                       /\ last'.op = "none"]_vars

C7_Witness ==
    /\ last.op = "stop" /\ last.afterStop
    /\ last.out = "NotRunning" /\ ~last.recTouched /\ last.sigs = {}

\* C8: the first status(N) after the process of a successful start(N) has
\* ended without a stop(N) reports not-running, whichever supervisor process
\* asks.
C8_StatusAfterKill ==
    (last.op = "status" /\ last.exp.st = "dead") => last.out = "stopped"

\* C9: when a probe of N has returned, a record file for N exists only if
\* it names a live process whose command name is the tool.
C9_RecordSoundAfterProbe ==
    (ReturnedFromProbe /\ pidfile[last.name].ex) => RecordSound(last.name)

\* C10 as stated: a start(N) that fails with AlreadyRunning has changed
\* neither the record file nor the log file of N and reports the identifier.
C10_RefusedStartNoChange ==
    (last.op = "start" /\ last.out = "AlreadyRunning")
        => (~last.recTouched /\ ~last.logTouched /\ last.pid \in Pids)

\* C10 amended: a start(N) that fails with AlreadyRunning reports the
\* running identifier, has not changed the log file of N and has written no
\* record; when the process was found through the record, the record is
\* unchanged; when it was found only by the fallback scan, a stale or
\* malformed record of N has been deleted by the probe.
C10_RefusedStartHeals ==
    (last.op = "start" /\ last.out = "AlreadyRunning")
        => /\ last.pid \in Pids
           /\ ~last.logTouched
           /\ IF pidfile[last.name].ex
              THEN ~last.recTouched /\ RecPid(last.recB) = last.pid
              ELSE last.recTouched = last.recB.ex

C10_Witness ==
    /\ last.op = "start" /\ last.out = "AlreadyRunning"
    /\ last.recB.ex /\ last.recTouched /\ ~pidfile[last.name].ex
    /\ last.pid \in Pids

\* C11: a start(N) that went past its probe and then failed, because the
\* command could not be launched (SpawnFailed) or because the process was
\* found dead after the settle wait (StartFailed), leaves no record file
\* for N.
C11_FailedStartNoRecord ==
    (last.op = "start" /\ last.out \in {"SpawnFailed", "StartFailed"})
        => ~pidfile[last.name].ex

C11_Witness ==
    /\ last.op = "start" /\ last.out = "StartFailed"
    /\ last.recB = File(ToStr(2)) /\ last.recTouched
    /\ ~pidfile[last.name].ex

\* C12: every stop(N) that went past its probe, the one whose signalling
\* raised an error included, ends with no record file for N.
C12_StopClearsRecord ==
    (last.op = "stop" /\ last.out \in {"ok", "error"}) => ~pidfile[last.name].ex

\* C13: a stop(N) whose target process ended by itself between the probe and
\* the forced signal of the stop sequence returns success.
C13_StopToleratesExit ==
    (last.op = "stop" /\ last.gone) => last.out = "ok"

\* C14: within one stop the graceful signal comes first, existence is polled
\* at most 10 times, and the forced signal goes only to a target that has not
\* ended before the polls ran out.
C14_SignalOrder ==
    \A i \in Inv :
        /\ ctx[i].k <= MaxPolls
        /\ \A p \in Pids : <<p, "KILL">> \in ctx[i].sigs => <<p, "TERM">> \in ctx[i].sigs
        /\ ctx[i].pc = "stop_clean" => ctx[i].k = MaxPolls /\ ~ctx[i].gone

\* the part of C14 that holds: order of the signals and bound of the polls
SignalOrderOnly ==
    \A i \in Inv :
        /\ ctx[i].k <= MaxPolls
        /\ \A p \in Pids : <<p, "KILL">> \in ctx[i].sigs => <<p, "TERM">> \in ctx[i].sigs
        /\ ctx[i].pc = "stop_clean" => ctx[i].k = MaxPolls
        /\ \A p \in Pids : <<p, "KILL">> \in ctx[i].sigs => ctx[i].pc = "stop_clean"

\* C15: a restart(N) whose probe finds N not running goes straight to
\* start_tunnel(N): no stop, no signal, no process and no log touched, and the
\* probe start_tunnel makes first finds the state the probe of restart left,
\* so what follows is what start(N) does.
C15_RestartNotRunningIsStart ==
    (last.op = "restart" /\ last.out = "start") =>
        \E i \in Inv :
            /\ ctx[i] = [Enter(last.name, "restart") EXCEPT !.pc = "restart_start"]
            /\ last.sigs = {} /\ last.born = {} /\ ~last.logTouched
            /\ LET r == Probe(i, last.name, pidfile, procs)
               IN  ~r.running /\ r.pf = pidfile /\ r.pr = procs

C15_Witness ==
    /\ last.op = "restart" /\ last.out = "start"
    /\ last.recTouched
    /\ \E p \in Pids : procs[p].st = "alive" /\ procs[p].comm = Tool
    /\ \E i \in Inv : ctx[i].pc = "restart_start" /\ ENABLED StartProbe(i, last.name)

\* C16: in a restart(N) that found N running, a stop that fails ends the
\* restart with nothing spawned and no log truncated; a stop that succeeds
\* has spawned nothing and is followed by start_tunnel(N); the return of that
\* start_tunnel is the return of the restart.
C16_RestartRunning ==
    /\ (last.op = "stop" /\ last.via = "restart" /\ last.out # "ok") =>
           /\ \A i \in Inv : ctx[i] = Idle
           /\ last.born = {} /\ ~last.logTouched
    /\ (last.op = "stop" /\ last.via = "restart" /\ last.out = "ok") =>
           /\ \E i \in Inv :
                 ctx[i] = [Enter(last.name, "restart") EXCEPT !.pc = "restart_start"]
           /\ last.born = {} /\ ~last.logTouched
    /\ (last.op = "start" /\ last.via = "restart") => \A i \in Inv : ctx[i] = Idle
    /\ \A i \in Inv :
           ctx[i].pc \in {"restart_stop", "stop_term", "stop_poll", "stop_clean"} =>
               ctx[i].child = 0

C16_Witness ==
    /\ last.op = "stop" /\ last.via = "restart" /\ last.out = "error"
    /\ \A i \in Inv : ctx[i] = Idle
    /\ log[last.name] = MaxLog

\* C17: status(N) spawns nothing, sends no signal but the existence test,
\* touches no log and changes no live process; the only thing it may change
\* is the record of N, by deleting it, and only a record that is malformed
\* or stale (one that does not name a live process of the tool).
C17_StatusPureRead ==
    last.op = "status" =>
        /\ last.born = {} /\ last.sigs = {} /\ ~last.logTouched /\ ~last.hurt
        /\ last.recTouched =>
              /\ last.recB.ex /\ ~pidfile[last.name].ex
              /\ ~NamesLiveTool(last.recB)

\* the frame of status that holds: a deleted record is the one change
StatusFrame ==
    last.op = "status" =>
        /\ last.born = {} /\ last.sigs = {} /\ ~last.logTouched /\ ~last.hurt
        /\ last.recTouched =>
              /\ last.recB.ex /\ ~pidfile[last.name].ex
              /\ NamesLiveTool(last.recB) => ~procs[RecPid(last.recB)].own

\* C18: when the record of N names a live process whose command name is the
\* tool, status(N) reports running with the recorded identifier and keeps
\* the record, whatever the fallback scan would find; an answer that comes
\* from the scan goes with a record that is absent or was just deleted.
C18_RecordPathWins ==
    last.op = "status" =>
        /\ NamesLiveTool(last.recB) =>
              /\ last.out = "running" /\ last.pid = RecPid(last.recB)
              /\ ~last.recTouched
        /\ (last.out = "stopped" \/ last.pid # RecPid(last.recB)) =>
              ~pidfile[last.name].ex

\* the order of the probe for a recorded process the user may signal
RecordPathOwn ==
    last.op = "status" =>
        /\ (NamesLiveTool(last.recB) /\ procs[RecPid(last.recB)].own) =>
              /\ last.out = "running" /\ last.pid = RecPid(last.recB)
              /\ ~last.recTouched
        /\ (last.out = "stopped" \/ last.pid # RecPid(last.recB)) =>
              ~pidfile[last.name].ex

\* the scan would have named another process than the record did
RecordBeatsScan ==
    /\ last.op = "status" /\ NamesLiveTool(last.recB)
    /\ last.out = "running" /\ last.pid = RecPid(last.recB)
    /\ Pgrep(procs, last.name) # {} /\ Min(Pgrep(procs, last.name)) # last.pid

\* C19: when N has no valid record (none, a malformed one, or one that does
\* not name a live process of the tool), status(N) reports running with the
\* first identifier of the scan if a process matches the pattern for N and
\* not-running with no identifier otherwise, and leaves no record behind.
C19_FallbackScan ==
    (last.op = "status" /\ ~NamesLiveTool(last.recB)) =>
        /\ last.out = ScanVerdict(last.name)
        /\ last.pid = IF Pgrep(procs, last.name) = {} THEN 0
                                                     ELSE Min(Pgrep(procs, last.name))
        /\ ~pidfile[last.name].ex

\* the record names an exited process that is still in the process table
NamesZombie(f) == RecPid(f) \in Pids /\ procs[RecPid(f)].st = "zombie"

\* the fallback of the probe, for a record that names no unreaped process
FallbackScanReaped ==
    (last.op = "status" /\ ~NamesLiveTool(last.recB) /\ ~NamesZombie(last.recB)) =>
        /\ last.out = ScanVerdict(last.name)
        /\ last.pid = IF Pgrep(procs, last.name) = {} THEN 0
                                                     ELSE Min(Pgrep(procs, last.name))
        /\ ~pidfile[last.name].ex

\* a process the supervisor did not spawn is reported by status, unrecorded
ExternalSeenUnrecorded ==
    /\ last.op = "status" /\ ~last.recB.ex /\ last.out = "running"
    /\ procs[last.pid].parent = 0 /\ ~pidfile[last.name].ex

\* C20: tail(N, k) ends with LogNotFound exactly when N has no log file, and
\* otherwise shows the last k lines of it; when a start(N) that went past its
\* probe returns, whatever its outcome, the log file of N exists unless it
\* was removed from outside in the meantime, so a tail made then shows its
\* lines, possibly none.
C20_TailLogNotFound ==
    /\ last.op = "tail" =>
          /\ (last.out = "LogNotFound") <=> (log[last.name] = NoLog)
          /\ last.out = "ok" => last.shown = Min({last.lines, log[last.name]})
          /\ ~last.logTouched /\ ~last.recTouched
    /\ (last.op = "start" /\ last.out # "AlreadyRunning" /\ ~last.removed) =>
          log[last.name] # NoLog
    /\ \A i \in Inv : (ctx[i].pc = "start_settle" /\ ~ctx[i].removed) =>
          log[ctx[i].name] # NoLog

C20_Witness ==
    /\ last.op = "tail" /\ last.out = "ok"
    /\ last.lines = MaxLog + 1 /\ last.shown = 0
    /\ live[last.name].st = "up"

\* C21: a log file is emptied by the spawn step of a start on its name and
\* by nothing else the supervisor does: every spawn step leaves the log of
\* its name empty, and any other step that changes a log is the tunnel
\* writing a line or the file being removed from outside; status, stop, tail
\* and a refused start return with the log as it was.
C21_TruncateAtSpawnOnly ==
    [][/\ \A i \in Inv : StartSpawn(i) => log'[ctx[i].name] = 0
       /\ log' # log =>
             \/ \E i \in Inv : StartSpawn(i)
             \/ \E n \in Names : LogOutput(n) \/ LogRemove(n)
       /\ (\/ last'.op \in {"status", "stop", "tail"}
           \/ (last'.op = "start" /\ last'.out = "AlreadyRunning"))
             => log' = log]_vars

C21_Witness ==
    /\ last.op = "start" /\ last.out = "SpawnFailed"
    /\ last.logB = MaxLog /\ log[last.name] = 0
    /\ last.logTouched

\* C22: every start, stop, restart, status and tail ends in a success or a
\* failure the supervisor reports, none in an exception that escapes it.
C22_DefiniteOutcome ==
    last.out # "crash"

\* the lines a returned start or stop printed: the return at line 235 is the
\* one of a stop whose SIGTERM found no process
Reported(l, err) ==
    Message(l.op,
            IF l.op = "stop" /\ l.out = "ok" /\ l.sigs = {} THEN "gone" ELSE l.out,
            l.name, l.pid, err)

FailureOuts == {"AlreadyRunning", "StartFailed", "SpawnFailed", "NotRunning", "error"}

\* C23: every failure of start and stop prints the tunnel name; the refusal
\* of a start of a running tunnel prints the identifier found as well, a
\* start whose process ended in the settle delay the path of the log file.
C23_FailuresNamed ==
    (last.op \in {"start", "stop"} /\ last.out \in FailureOuts) =>
        \A err \in ErrTexts :
            LET m == Reported(last, err) IN
            /\ Carries(m, last.name)
            /\ last.out = "AlreadyRunning" => Carries(m, ToStr(last.pid))
            /\ last.out = "StartFailed" => Carries(m, LogFile(last.name))

\* the failures that print what C23 asks of them
NamedFailures ==
    (last.op \in {"start", "stop"}
        /\ last.out \in {"AlreadyRunning", "StartFailed", "NotRunning"}) =>
        LET m == Reported(last, <<>>) IN
        /\ Carries(m, last.name)
        /\ last.out = "AlreadyRunning" => Carries(m, ToStr(last.pid))
        /\ last.out = "StartFailed" => Carries(m, LogFile(last.name))

\* a stop that sent SIGKILL after its ten polls
Escalated(l) == l.op = "stop" /\ \E p \in Pids : <<p, "KILL">> \in l.sigs

\* an escalated stop returns success with the PID file gone
EscalatedStopSucceeds ==
    Escalated(last) => last.out = "ok" /\ ~pidfile[last.name].ex

\* C24: what a stop that escalated to SIGKILL reports differs from what a
\* stop reports whose target went away after the SIGTERM.
C24_EscalationReported ==
    Escalated(last) =>
        \A err \in ErrTexts :
            <<last.out, Reported(last, err)>> #
                <<"ok", Message("stop", "ok", last.name, last.pid, err)>>

\* a start that got as far as Popen and Popen returned a process
Spawned(l) == l.op = "start" /\ l.out \in {"ok", "StartFailed"}

\* the order of lines 144-157: the file given when it exists, else, when
\* none is given, the default file of the name when that exists
ConfigOrder ==
    Spawned(last) =>
        /\ last.arg = "file" => last.conf = "explicit"
        /\ last.arg = "none" =>
              last.conf = IF last.name \in ConfigDir THEN "default" ELSE "none"

\* C25: a start uses the config file given, else the default file of the
\* name when it exists, else none; a process spawned with no config file
\* comes with a warning.
C25_ConfigResolution ==
    Spawned(last) =>
        /\ last.arg = "file" => last.conf = "explicit"
        /\ last.arg = "none" =>
              last.conf = IF last.name \in ConfigDir THEN "default" ELSE "none"
        /\ last.conf = "none" => last.warn

\* a start with no config file at all that succeeded, after its warning
StartedWithoutConfig ==
    last.op = "start" /\ last.out = "ok" /\ last.conf = "none" /\ last.warn

\* C26: the step of a start that spawns the process writes its identifier
\* to the PID file of the name, ahead of the settle delay; a start that
\* returns success leaves that PID file holding the identifier of the
\* process it spawned, which it found alive after the delay.
C26_RecordAfterSpawn ==
    [][\A i \in Inv :
         /\ (StartSpawn(i) /\ ctx'[i].pc = "start_settle") =>
               /\ procs[ctx'[i].child].st # "alive"
               /\ procs'[ctx'[i].child].st = "alive"
               /\ procs'[ctx'[i].child].tunnel = ctx[i].name
               /\ pidfile'[ctx[i].name] = File(ToStr(ctx'[i].child))
         /\ (StartSettle(i) /\ last'.out = "ok") =>
               /\ last'.pid = ctx[i].child
               /\ pidfile'[ctx[i].name] = File(ToStr(ctx[i].child))
               /\ procs[ctx[i].child].st = "alive"
               /\ procs'[ctx[i].child].st = "alive"
               /\ procs[ctx[i].child].tunnel = ctx[i].name
               /\ procs[ctx[i].child].parent = i]_vars

C26_Witness ==
    /\ last.op = "start" /\ last.out = "ok"
    /\ pidfile[last.name] = File(ToStr(last.pid))
    /\ procs[last.pid].st = "alive" /\ procs[last.pid].tunnel = last.name

\* the signals of kind s a stop has sent
Sent(sigs, s) == {x \in sigs : x[2] = s}

\* C27: a stop makes at most ten polls after one SIGTERM and sends at most
\* one SIGKILL, and every stop, start and restart that has begun returns.
C27_Terminates ==
    /\ [](\A i \in Inv : /\ ctx[i].k <= 10
                          /\ Cardinality(Sent(ctx[i].sigs, "TERM")) <= 1
                          /\ Cardinality(Sent(ctx[i].sigs, "KILL")) <= 1
                          /\ ctx[i].pc = "stop_clean" => ctx[i].k = 10)
    /\ \A i \in Inv : (ctx[i].pc # "idle") ~> (ctx[i].pc = "idle")

\* a stop that used up its ten polls and sent SIGKILL has returned
C27_Witness ==
    /\ last.op = "stop" /\ last.out = "ok"
    /\ Cardinality(Sent(last.sigs, "KILL")) = 1
    /\ Cardinality(Sent(last.sigs, "TERM")) = 1
    /\ \A i \in Inv : ctx[i].pc = "idle"

\* identifier p names a live process that is not the tool running tunnel n
OtherTunnel(p, n) ==
    /\ p \in Pids
    /\ procs[p].st = "alive"
    /\ procs[p].comm # Tool \/ procs[p].tunnel # n

\* C28: a live process that a probe of N reports is the tool running tunnel
\* N: status(N) and a refused start(N) report no process that runs another
\* tunnel, and stop(N) goes after none.
C28_ProbeSoundForName ==
    /\ (last.op = "status" /\ last.out = "running") => ~OtherTunnel(last.pid, last.name)
    /\ (last.op = "start" /\ last.out = "AlreadyRunning") =>
          ~OtherTunnel(last.pid, last.name)
    /\ \A i \in Inv : (ctx[i].pc = "stop_term" /\ ~ctx[i].gone) =>
          ~OtherTunnel(ctx[i].pid, ctx[i].name)

\* status(a) reports the process of tunnel ab, found by the scan
SubstringReported ==
    /\ last.op = "status" /\ last.out = "running" /\ last.name = NameA
    /\ ~last.recB.ex
    /\ procs[last.pid].st = "alive" /\ procs[last.pid].tunnel = NameAB

\* status(ab) reports the process of tunnel a, found through a record that
\* was written for another process
RecycledReported ==
    /\ last.op = "status" /\ last.out = "running" /\ last.name = NameAB
    /\ last.recB.ex /\ ~last.recTouched
    /\ procs[last.pid].st = "alive" /\ procs[last.pid].tunnel = NameA

\* stop(a) has sent SIGTERM to the process of tunnel ab
OtherTunnelSignalled ==
    \E i \in Inv :
        /\ ctx[i].pc = "stop_poll" /\ ctx[i].name = NameA /\ ~ctx[i].gone
        /\ <<ctx[i].pid, "TERM">> \in ctx[i].sigs
        /\ procs[ctx[i].pid].st = "alive" /\ procs[ctx[i].pid].tunnel = NameAB

\* every signal of a stop goes to the identifier its probe returned
SignalsToProbed ==
    \A i \in Inv : \A x \in ctx[i].sigs : x[1] = ctx[i].pid

\* C29: a stop signals only the identifier its probe returned, and once the
\* process it probed has ended it sends no signal to a live process that
\* has the identifier now.
C29_SignalsOnlyTarget ==
    [][\A i \in Inv :
         /\ \A x \in ctx'[i].sigs : x[1] = ctx'[i].pid
         /\ (ctx[i].gone /\ procs[ctx[i].pid].st = "alive") =>
               ctx'[i].sigs \subseteq ctx[i].sigs]_vars

\* a stop has sent SIGKILL to a process that came after the one it probed
RecycledKilled ==
    \E i \in Inv :
        /\ ctx[i].pc = "stop_clean" /\ ctx[i].gone
        /\ <<ctx[i].pid, "KILL">> \in ctx[i].sigs
        /\ procs[ctx[i].pid].st = "free"

\* this step belongs to an operation of supervisor i on name m: one in
\* flight, one that begins, or one that begins and returns at once
StepOn(i, m) ==
    \/ ctx[i].pc # "idle" /\ ctx[i].name = m
    \/ ctx[i].pc = "idle" /\ ctx'[i].pc # "idle" /\ ctx'[i].name = m
    \/ ctx[i].pc = "idle" /\ ctx'[i].pc = "idle" /\ last'.op # "none" /\ last'.name = m

\* C30: a step of start, stop, restart, status or tail on one name leaves
\* the PID file and the log file of every other name as they were: the
\* files of a name change only in a step of an operation on that name, or
\* when its tunnel writes to its log or the log is removed from outside.
C30_PerNameIsolation ==
    [][\A m \in Names :
         (pidfile'[m] # pidfile[m] \/ log'[m] # log[m]) =>
            \/ \E i \in Inv : StepOn(i, m) /\ \A j \in Inv : \A n \in Names \ {m} : ~StepOn(j, n)
            \/ LogOutput(m) \/ LogRemove(m)]_vars

\* a stop of a has removed the PID file of a and returned while ab has a PID
\* file and a log
C30_Witness ==
    /\ last.op = "stop" /\ last.out = "ok" /\ last.name = NameA
    /\ last.recTouched /\ ~pidfile[NameA].ex
    /\ pidfile[NameAB].ex /\ log[NameAB] # NoLog

\* the live processes of the tool that run tunnel n
TunnelProcs(n) ==
    {p \in Pids : procs[p].st = "alive" /\ procs[p].comm = Tool /\ procs[p].tunnel = n}

\* C31: however the steps of two start(N) of a stopped tunnel interleave,
\* at most one live process runs tunnel N at any time.
C31_NoDoubleSpawn ==
    \A n \in Names : Cardinality(TunnelProcs(n)) <= 1

\* two starts of one name are past their probes, neither has spawned yet
BothPastProbe ==
    /\ \A i \in Inv : ctx[i].pc = "start_spawn"
    /\ ctx[Menu].name = ctx[Cli].name

\* C32: a start that failed, at its spawn or in its settle delay, has not
\* removed a PID file that names a live process of its tunnel, which is the
\* process another start spawned.
C32_CleanupOwnRecordOnly ==
    ( /\ last.op = "start" /\ last.out \in {"StartFailed", "SpawnFailed"}
      /\ last.recTouched )
        => ~(NamesLiveTool(last.recB) /\ procs[RecPid(last.recB)].tunnel = last.name)

\* C33: however the steps of two stop(N) of a running tunnel interleave,
\* each of them ends with success or with NotRunning, none with an error or
\* with an exception that escapes.
C33_ConcurrentStops ==
    last.op = "stop" => last.out \in {"ok", "NotRunning"}

\* a stop has found the PID file and is about to unlink it while another
\* stop of the same name is in flight
UnlinkRace ==
    \E i \in Inv :
        /\ ctx[i].pc = "stop_unlink"
        /\ \E j \in Inv \ {i} : ctx[j].pc # "idle" /\ ctx[j].name = ctx[i].name

\* a stop ended in an exception that no handler caught
StopCrashed == last.op = "stop" /\ last.out = "crash"

\* a stop ended with the error report of line 237
StopErrored == last.op = "stop" /\ last.out = "error"

\* once no stop is in flight and one has returned, no tunnel process of the
\* name it stopped is alive and the name has no PID file
StoppedForGood ==
    ( /\ \A i \in Inv : ctx[i].pc = "idle"
      /\ last.op = "stop" /\ last.out \in {"ok", "NotRunning"} )
        => TunnelProcs(last.name) = {} /\ ~pidfile[last.name].ex

\* C34: when a delete of a running tunnel has returned success, the process
\* it set out to stop is not alive as a process of that tunnel, and the name
\* has neither a PID file nor a log file.
C34_DeleteLeavesNothing ==
    (last.op = "delete" /\ last.out = "ok" /\ last.afterStop) =>
        /\ ~(/\ last.pid \in Pids
             /\ procs[last.pid].st = "alive"
             /\ procs[last.pid].comm = Tool
             /\ procs[last.pid].tunnel = last.name)
        /\ ~pidfile[last.name].ex
        /\ log[last.name] = NoLog

\* the files of a deleted tunnel are gone
DeleteRemovesFiles ==
    (last.op = "delete" /\ last.out = "ok") =>
        ~pidfile[last.name].ex /\ log[last.name] = NoLog

\* a delete went on to success after its stop_tunnel had reported an error
DeletedAfterStopError ==
    /\ last.op = "delete" /\ last.out = "ok" /\ last.afterStop
    /\ last.pid \in Pids /\ procs[last.pid].st = "alive" /\ ~procs[last.pid].own

====
